---- MODULE Spec2Model ----
(***************************************************************************)
(* A model of CopyMedia (copy_files.py): configuration processing, the    *)
(* classification of file names against the configured series, and the    *)
(* relocation of series and movie files, together with the notification   *)
(* string built by send_notification (copy-files.py).                     *)
(*                                                                         *)
(* Python strings are sequences of one-character strings; None is the     *)
(* distinguished value None below, which is no string of the inputs.      *)
(***************************************************************************)
EXTENDS Integers, Sequences, FiniteSets, TLC

\* ------------------------------------------------------------------ bounds

\* Longest list of series rules a configuration holds.
MaxRules == 3

\* Most files the scanned directory holds when the run starts.
MaxFiles == 3

\* ----------------------------------------------------------------- strings

None == <<"None">>

\* Python truthiness of an optional string: None and '' are falsy.
Truthy(x) == x # None /\ x # <<>>

Max(S) == CHOOSE x \in S : \A y \in S : y <= x

Drop(s, k) == SubSeq(s, k + 1, Len(s))

\* posixpath.join(a, b) for two arguments; join(None, b) raises TypeError,
\* which the callers test with a = None before using it.
join(a, b) ==
    IF b # <<>> /\ b[1] = "/" THEN b
    ELSE IF a = <<>> \/ a[Len(a)] = "/" THEN a \o b
    ELSE a \o <<"/">> \o b

\* posixpath.split(p): <<head, tail>>, tail being what follows the last '/'
\* and head what precedes it, without its trailing slashes unless it is all
\* slashes.
RECURSIVE RStripSlash(_)
RStripSlash(s) ==
    IF s # <<>> /\ s[Len(s)] = "/" THEN RStripSlash(SubSeq(s, 1, Len(s) - 1))
    ELSE s

split(p) ==
    LET slashes == {i \in 1..Len(p) : p[i] = "/"}
        i == IF slashes = {} THEN 0 ELSE Max(slashes)
        head == SubSeq(p, 1, i)
        tail == Drop(p, i)
    IN  <<IF RStripSlash(head) = <<>> THEN head ELSE RStripSlash(head), tail>>

\* ------------------------------------------------------------------- regex
\* The regular expressions of the inputs are built from literal characters,
\* '.' (any character) and the greedy quantifier '*' on the preceding atom.

AtomMatches(a, c) == a = "." \/ a = c

\* How many leading characters of s the atom a matches.
RECURSIVE Run(_, _)
Run(a, s) ==
    IF s # <<>> /\ AtomMatches(a, s[1]) THEN 1 + Run(a, Tail(s)) ELSE 0

\* The length of the match the backtracking matcher finds for pattern p at
\* the start of s (greedy: the longest repetition whose rest still matches),
\* or -1 when p does not match there.
RECURSIVE MatchLen(_, _)
MatchLen(p, s) ==
    IF p = <<>> THEN 0
    ELSE IF Len(p) >= 2 /\ p[2] = "*" THEN
        LET rest == Drop(p, 2)
            ks == {k \in 0..Run(p[1], s) : MatchLen(rest, Drop(s, k)) >= 0}
        IN  IF ks = {} THEN -1
            ELSE Max(ks) + MatchLen(rest, Drop(s, Max(ks)))
    ELSE IF s # <<>> /\ AtomMatches(p[1], s[1]) THEN
        LET r == MatchLen(Tail(p), Tail(s))
        IN  IF r < 0 THEN -1 ELSE 1 + r
    ELSE -1

\* re.match(p, s) is truthy: p matches at the start of s (a match object is
\* truthy also when the match is empty).
re_match(p, s) == MatchLen(p, s) >= 0

\* re.sub(p, repl, s) for a literal repl: every non-overlapping match of p in
\* s, leftmost first, is replaced; an empty match is replaced too, unless it
\* starts where the previous empty match was found (mustAdvance).
RECURSIVE SubFrom(_, _, _, _, _)
SubFrom(p, repl, s, pos, mustAdvance) ==
    LET L == MatchLen(p, Drop(s, pos))
    IN  IF L > 0 THEN repl \o SubFrom(p, repl, s, pos + L, FALSE)
        ELSE IF L = 0 /\ ~mustAdvance THEN repl \o SubFrom(p, repl, s, pos, TRUE)
        ELSE IF pos >= Len(s) THEN <<>>
        ELSE <<s[pos + 1]>> \o SubFrom(p, repl, s, pos + 1, FALSE)

re_sub(p, repl, s) == SubFrom(p, repl, s, 0, FALSE)

\* ' and '.join(names): the names with the separator between neighbours.
Sep == <<" ", "a", "n", "d", " ">>

RECURSIVE str_join(_, _)
str_join(sep, names) ==
    IF names = <<>> THEN <<>>
    ELSE IF Len(names) = 1 THEN names[1]
    ELSE names[1] \o sep \o str_join(sep, Tail(names))

\* -------------------------------------------------------------- filesystem
\* The filesystem is the set of paths of regular files and the set of paths
\* of directories. A directory path is compared without trailing slashes.

Norm(p) == IF RStripSlash(p) = <<>> THEN p ELSE RStripSlash(p)

exists(p, fFiles, fDirs) == Norm(p) \in fFiles \cup fDirs

isdir(p, fDirs) == Norm(p) \in fDirs

\* The path and every ancestor of it: what makedirs(p) leaves existing.
RECURSIVE WithParents(_)
WithParents(p) ==
    LET q == Norm(p)
        head == split(q)[1]
    IN  IF q = <<>> \/ head = q THEN {}
        ELSE {q} \cup WithParents(head)

\* The names listdir(d) returns that isfile accepts.
FileNamesIn(d, fFiles) == {split(p)[2] : p \in {q \in fFiles : split(q)[1] = Norm(d)}}

Perms(S) ==
    {s \in [1..Cardinality(S) -> S] : \A i, j \in DOMAIN s : i # j => s[i] # s[j]}

\* shutil.move(src, dst): into dst when dst is a directory (an error when the
\* name is taken there), else a rename onto dst, which needs the source to be
\* there and the directory of dst to exist. denied is the operating system
\* refusing the move. The result: whether the move was made, and the files.
shutil_move(src, dst, fFiles, fDirs, denied) ==
    LET real_dst == IF isdir(dst, fDirs) THEN join(dst, split(src)[2]) ELSE dst
        ok == /\ ~denied
              /\ src \in fFiles
              /\ ~(isdir(dst, fDirs) /\ exists(real_dst, fFiles, fDirs))
              /\ isdir(split(real_dst)[1], fDirs)
              /\ split(real_dst)[2] # <<>>
    IN  [ok |-> ok,
         files |-> IF ok THEN (fFiles \ {src}) \cup {real_dst} ELSE fFiles]

\* ----------------------------------------------------------- configuration

\* validate_series(series): the exception it raises, or "ok".
validate_series(shows) ==
    IF \E k \in DOMAIN shows :
          "name" \notin DOMAIN shows[k] \/ "regex" \notin DOMAIN shows[k]
    THEN "KeyError"
    ELSE "ok"

\* The test of line 135 left out: a run with nothing to scan goes on.
MissingScan_never(f, sdir) == FALSE

\* process_configs, the test of line 135: neither a file nor a directory.
MissingScan(f, sdir) == ~Truthy(f) /\ ~Truthy(sdir)

\* process_configs, the tests of lines 150 and 158: a destination root that
\* was given neither on the command line nor in the configuration.
MissingDest(dir) == ~Truthy(dir)

\* --------------------------------------------------------------- matching

\* The inner loop without its break: the last matching show is the one kept.
RECURSIVE FirstShow_last(_, _, _)
FirstShow_last(f, shows, k) ==
    IF k > Len(shows) THEN 0
    ELSE LET later == FirstShow_last(f, shows, k + 1)
         IN  IF later > 0 THEN later
             ELSE IF re_match(shows[k].regex, f) THEN k
             ELSE 0

\* The index of the first show whose regex matches f, or 0: the inner loop
\* of match_files, which breaks at the first match.
RECURSIVE FirstShow(_, _, _)
FirstShow(f, shows, k) ==
    IF k > Len(shows) THEN 0
    ELSE IF re_match(shows[k].regex, f) THEN k
    ELSE FirstShow(f, shows, k + 1)

\* match_files without the test of `matched`: every file is appended to
\* nonmatches, the matched ones too.
RECURSIVE match_files_unguarded(_, _)
match_files_unguarded(fs, shows) ==
    IF fs = <<>> THEN [matches |-> <<>>, nonmatches |-> <<>>]
    ELSE LET k == FirstShow(fs[1], shows, 1)
             r == match_files_unguarded(Tail(fs), shows)
         IN  [matches |-> IF k > 0 THEN <<<<fs[1], shows[k]>>>> \o r.matches
                          ELSE r.matches,
              nonmatches |-> <<fs[1]>> \o r.nonmatches]

\* match_files(files, series): the lists matches and nonmatches.
RECURSIVE match_files(_, _)
match_files(fs, shows) ==
    IF fs = <<>> THEN [matches |-> <<>>, nonmatches |-> <<>>]
    ELSE LET k == FirstShow(fs[1], shows, 1)
             r == match_files(Tail(fs), shows)
         IN  IF k > 0
             THEN [matches |-> <<<<fs[1], shows[k]>>>> \o r.matches,
                   nonmatches |-> r.nonmatches]
             ELSE [matches |-> r.matches,
                   nonmatches |-> <<fs[1]>> \o r.nonmatches]

\* --------------------------------------------------------------- relocation

\* move_series, lines 224-228: the name the file gets at its destination.
DestFileName(file_name, config_entry) ==
    IF "replace" \in DOMAIN config_entry
    THEN re_sub(config_entry.regex, config_entry.replace, file_name)
    ELSE file_name

\* The destination key ignored: every file goes to the folder of the name.
DestDir_name_only(move_dir, config_entry) == join(move_dir, config_entry.name)

\* move_series, lines 233-236: the directory the file is moved into.
DestDir(move_dir, config_entry) ==
    IF "destination" \in DOMAIN config_entry
    THEN join(move_dir, config_entry.destination)
    ELSE join(move_dir, config_entry.name)

\* A movie filed in a folder of its own under the movie root.
MovieDest_subfolder(move_dir, file_name) ==
    join(join(move_dir, file_name), file_name)

\* move_movies, line 210: where a movie file is moved to.
MovieDest(move_dir, file_name) == join(move_dir, file_name)

\* The names with the repeated ones dropped before they are joined.
RECURSIVE Dedup(_)
Dedup(names) ==
    IF names = <<>> THEN <<>>
    ELSE LET init == Dedup(SubSeq(names, 1, Len(names) - 1))
             last == names[Len(names)]
         IN  IF \E k \in DOMAIN init : init[k] = last THEN init
             ELSE Append(init, last)

NameString_dedup(ms) == str_join(Sep, Dedup([k \in DOMAIN ms |-> ms[k][2].name]))

\* send_notification, lines 138-139: the string that is posted.
NameString(ms) == str_join(Sep, [k \in DOMAIN ms |-> ms[k][2].name])

\* ------------------------------------------------------------------ inputs

ScanPath == <<"/", "s">>
OtherPath == <<"/", "t">>
\* A directory that does not exist.
MissingPath == <<"/", "n">>
SeriesPath == <<"/", "d">>
MoviePath == <<"/", "m">>

\* The file names a directory of the inputs may hold.
FileNames == {<<"a">>, <<"a", "b">>, <<"b">>}

\* The series entries a configuration is built from: well-formed ones whose
\* patterns overlap, one with a rename and a destination, one with an empty
\* regex, one with an empty name, and one lacking each required key.
Rules ==
    { [name |-> <<"A">>, regex |-> <<"a">>],
      [name |-> <<"B">>, regex |-> <<".", "*">>],
      [name |-> <<"A">>, regex |-> <<"a", ".", "*">>,
       replace |-> <<"c">>, destination |-> <<"x">>],
      [name |-> <<"B">>, regex |-> <<>>],
      [name |-> <<>>, regex |-> <<"b">>],
      [regex |-> <<"a">>],
      [name |-> <<"A">>] }

SeqsUpTo(S, n) == UNION {[1..k -> S] : k \in 0..n}

SubsetsUpTo(S, n) == {T \in SUBSET S : Cardinality(T) <= n}

\* Command lines that leave everything to the configuration file, with and
\* without a notification key.
PlainArgs ==
    [file : {None}, scan : {None}, dest : {None}, moviedest : {None},
     ifttt : {None, <<"k">>}, delugeArgs : {<<>>}]

\* Command lines that name a file (directly or as a download client does), a
\* directory to scan and the destination roots, in every combination.
SetupArgs ==
    [file : {None, join(ScanPath, <<"a">>), join(OtherPath, <<"a">>)},
     scan : {None, ScanPath, MissingPath}, dest : {None, SeriesPath},
     moviedest : {None, MoviePath}, ifttt : {None},
     delugeArgs : {<<>>, <<<<"i">>, <<"b">>, ScanPath>>}]

\* Configuration files with every setting present and any list of series.
FullConfigs ==
    {[scanDir |-> ScanPath, seriesDir |-> SeriesPath, movieDir |-> MoviePath,
      series |-> shows] : shows \in SeqsUpTo(Rules, MaxRules)}

\* Configuration files in which each setting is present or absent.
SetupConfigs ==
    LET full == [scanDir |-> ScanPath, seriesDir |-> SeriesPath,
                 movieDir |-> MoviePath,
                 series |-> <<[name |-> <<"A">>, regex |-> <<"a">>]>>]
    IN  {[k \in keys |-> full[k]] : keys \in SUBSET DOMAIN full}

BaseDirs == {ScanPath, OtherPath, SeriesPath, MoviePath}

\* ------------------------------------------------------------------- state

VARIABLES
    args,          \* the parsed command line
    config,        \* the parsed configuration file
    fsFiles,       \* the regular files of the filesystem
    fsDirs,        \* the directories of the filesystem
    pc,            \* where the run is
    err,           \* the exception that ended the run, or None
    file, scandir, seriesdir, moviedir, ifttt_url,   \* the fields of CopyMedia
    series,        \* CopyMedia.series: <<>> for None, else <<the list>>
    files, matches, nonmatches, movie_files,         \* the locals of execute
    i,             \* the index of the loop that is running
    destinations,  \* the set move_series builds
    ops            \* what the run did to its surroundings, in order

vars == <<args, config, fsFiles, fsDirs, pc, err, file, scandir, seriesdir,
          moviedir, ifttt_url, series, files, matches, nonmatches,
          movie_files, i, destinations, ops>>

fields == <<file, scandir, seriesdir, moviedir, ifttt_url, series>>
locals == <<files, matches, nonmatches, movie_files, i, destinations>>
inputs == <<args, config>>
fs == <<fsFiles, fsDirs>>

Op(name, a, b, res) == [op |-> name, a |-> a, b |-> b, res |-> res]

Init ==
    /\ \/ /\ args \in PlainArgs
          /\ config \in FullConfigs
          /\ \E names \in SubsetsUpTo(FileNames, MaxFiles) :
                fsFiles = {join(ScanPath, n) : n \in names}
          /\ fsDirs \in {BaseDirs, BaseDirs \cup {join(SeriesPath, <<"A">>)}}
       \/ /\ args \in SetupArgs
          /\ config \in SetupConfigs
          /\ fsFiles = {join(ScanPath, <<"a">>), join(ScanPath, <<"b">>),
                        join(OtherPath, <<"a">>)}
          /\ fsDirs = BaseDirs
    /\ pc = "main"
    /\ err = None
    /\ file = None /\ scandir = None /\ seriesdir = None /\ moviedir = None
    /\ ifttt_url = None /\ series = <<>>
    /\ files = <<>> /\ matches = <<>> /\ nonmatches = <<>> /\ movie_files = <<>>
    /\ i = 0
    /\ destinations = {}
    /\ ops = <<>>

\* An exception leaves the run: nothing after the raising statement happens.
Raise(kind, to) == pc' = to /\ err' = kind

\* --------------------------------------------------------------------- main
\* main() up to the construction of CopyMedia, and the assignments of
\* __init__: the file comes from the download client's arguments unless
\* --file overrides it; the trigger URL from its fourth argument or --ifttt.
Main ==
    /\ pc = "main"
    /\ LET n == Len(args.delugeArgs)
           torrent == n >= 3 /\ Truthy(args.delugeArgs[2])
                             /\ Truthy(args.delugeArgs[3])
           url == IF n = 4 THEN <<"u", "/">> \o args.delugeArgs[4]
                  ELSE IF Truthy(args.ifttt) THEN <<"u", "/">> \o args.ifttt
                  ELSE None
       IN  /\ file' = IF Truthy(args.file) THEN args.file
                      ELSE IF torrent
                           THEN join(args.delugeArgs[3], args.delugeArgs[2])
                           ELSE None
           /\ ifttt_url' = url
    /\ scandir' = args.scan
    /\ seriesdir' = args.dest
    /\ moviedir' = args.moviedest
    /\ pc' = "process_configs"
    /\ UNCHANGED <<inputs, fs, err, series, locals, ops>>

\* ----------------------------------------------------------- process_configs
\* process_configs and validate_series, called from __init__ through
\* process_config_file. An exception here ends the run in main, before
\* execute is called.
ProcessConfigs ==
    /\ pc = "process_configs"
    /\ LET sdir == IF ~Truthy(file) /\ scandir = None /\ "scanDir" \in DOMAIN config
                   THEN config.scanDir ELSE scandir
           ddir == IF seriesdir = None /\ "seriesDir" \in DOMAIN config
                   THEN config.seriesDir ELSE seriesdir
           mdir == IF moviedir = None /\ "movieDir" \in DOMAIN config
                   THEN config.movieDir ELSE moviedir
       IN  /\ scandir' = sdir
           /\ IF MissingScan(file, sdir)
              THEN /\ Raise(<<"ConfigurationError">>, "failed")
                   /\ UNCHANGED <<seriesdir, moviedir, series>>
              ELSE /\ seriesdir' = ddir
                   /\ moviedir' = mdir
                   /\ IF MissingDest(ddir) \/ MissingDest(mdir)
                      THEN /\ Raise(<<"ConfigurationError">>, "failed")
                           /\ UNCHANGED series
                      ELSE IF "series" \in DOMAIN config
                      THEN /\ series' = <<config.series>>
                           /\ IF validate_series(config.series) = "ok"
                              THEN pc' = "execute" /\ err' = err
                              ELSE Raise(<<validate_series(config.series)>>, "failed")
                      ELSE /\ pc' = "execute"
                           /\ UNCHANGED <<series, err>>
    /\ UNCHANGED <<inputs, fs, file, ifttt_url, locals, ops>>

\* ------------------------------------------------------------------ execute
\* execute, lines 79-84: the one file that was named, else the regular
\* files of the scanned directory, in the order listdir yields them.
ResolveFiles ==
    /\ pc = "execute"
    /\ IF Truthy(file)
       THEN /\ files' = <<split(file)[2]>>
            /\ pc' = "match_files"
            /\ UNCHANGED <<err, ops>>
       ELSE /\ ops' = Append(ops, Op("listdir", scandir, <<>>, <<>>))
            /\ IF isdir(scandir, fsDirs)
               THEN /\ files' \in Perms(FileNamesIn(scandir, fsFiles))
                    /\ pc' = "match_files"
                    /\ err' = err
               ELSE /\ Raise(<<"OSError">>, "crashed")
                    /\ UNCHANGED files
    /\ UNCHANGED <<inputs, fs, fields, matches, nonmatches, movie_files, i,
                   destinations>>

\* The movie branch tested on its own, not as the elif of the series branch.
Branch_unmatched_first(ms, nms, mdir) ==
    IF nms # <<>> /\ mdir # None THEN "lookup"
    ELSE IF ms # <<>> THEN "move_series"
    ELSE "done"

\* execute, lines 89 and 96: which relocation the run goes on with.
Branch(ms, nms, mdir) ==
    IF ms # <<>> THEN "move_series"
    ELSE IF nms # <<>> /\ mdir # None THEN "lookup"
    ELSE "done"

\* execute, line 87, and the choice of the branch. Without a 'series' key
\* in the configuration, series is None and the loop over it raises as soon
\* as there is a file to classify.
MatchFiles ==
    /\ pc = "match_files"
    /\ IF series = <<>> /\ files # <<>>
       THEN /\ Raise(<<"TypeError">>, "crashed")
            /\ UNCHANGED <<matches, nonmatches, i>>
       ELSE LET r == match_files(files, IF series = <<>> THEN <<>> ELSE series[1])
            IN  /\ matches' = r.matches
                /\ nonmatches' = r.nonmatches
                /\ pc' = Branch(r.matches, r.nonmatches, moviedir)
                /\ i' = 1
                /\ err' = err
    /\ UNCHANGED <<inputs, fs, fields, files, movie_files, destinations, ops>>

\* One iteration of the loop of move_series(matches, seriesdir, scandir):
\* the destination directory is created when nothing exists at its path, the
\* file is moved, the directory is recorded. The loop handles no exception:
\* a move that fails ends the run.
MoveSeries ==
    /\ pc = "move_series"
    /\ \E denied \in BOOLEAN :
        LET file_name == matches[i][1]
            config_entry == matches[i][2]
            dest_file_name == DestFileName(file_name, config_entry)
            dest == DestDir(seriesdir, config_entry)
            create == ~exists(dest, fsFiles, fsDirs)
            dirs == IF create THEN fsDirs \cup WithParents(dest) ELSE fsDirs
            made == IF create THEN <<Op("makedirs", dest, <<>>, <<>>)>> ELSE <<>>
        IN  /\ fsDirs' = dirs
            /\ IF scandir = None
               THEN /\ Raise(<<"TypeError">>, "crashed")
                    /\ ops' = ops \o made
                    /\ UNCHANGED <<fsFiles, destinations, i>>
               ELSE LET src == join(scandir, file_name)
                        dst == join(dest, dest_file_name)
                        mv == shutil_move(src, dst, fsFiles, dirs, denied)
                    IN  /\ fsFiles' = mv.files
                        /\ ops' = ops \o made \o
                                  <<Op("move", src, dst,
                                       IF mv.ok THEN <<"ok">> ELSE <<"error">>)>>
                        /\ IF mv.ok
                           THEN /\ destinations' = destinations \cup {dest}
                                /\ i' = i + 1
                                /\ pc' = IF i = Len(matches) THEN "notify"
                                         ELSE "move_series"
                                /\ err' = err
                           ELSE /\ Raise(<<"OSError">>, "crashed")
                                /\ UNCHANGED <<destinations, i>>
    /\ UNCHANGED <<inputs, fields, files, matches, nonmatches, movie_files>>

\* execute, lines 93-94, and send_notification: with a trigger URL, the
\* names of the matches are posted, if there is a match.
Notify ==
    /\ pc = "notify"
    /\ ops' = IF ifttt_url # None /\ matches # <<>>
              THEN Append(ops, Op("notify", ifttt_url, NameString(matches), <<>>))
              ELSE ops
    /\ pc' = "done"
    /\ UNCHANGED <<inputs, fs, fields, locals, err>>

\* One element of the list comprehension of line 100: tmdb.is_movie answers
\* for the next file, or raises; the comprehension handles no exception.
Lookup ==
    /\ pc = "lookup"
    /\ \E verdict \in {<<"true">>, <<"false">>, <<"raise">>} :
        /\ ops' = Append(ops, Op("is_movie", files[i], <<>>, verdict))
        /\ IF verdict = <<"raise">>
           THEN /\ Raise(<<"LookupError">>, "crashed")
                /\ UNCHANGED <<movie_files, i>>
           ELSE LET found == IF verdict = <<"true">>
                             THEN Append(movie_files, files[i]) ELSE movie_files
                IN  /\ movie_files' = found
                    /\ err' = err
                    /\ IF i < Len(files)
                       THEN pc' = "lookup" /\ i' = i + 1
                       ELSE /\ pc' = IF found = <<>> THEN "done" ELSE "move_movies"
                            /\ i' = 1
    /\ UNCHANGED <<inputs, fs, fields, files, matches, nonmatches, destinations>>

\* One iteration of the loop of move_movies(movie_files, moviedir, scandir).
\* The loop handles no exception: a move that fails ends the run.
MoveMovies ==
    /\ pc = "move_movies"
    /\ \E denied \in BOOLEAN :
        LET file_name == movie_files[i]
        IN  IF scandir = None
            THEN /\ Raise(<<"TypeError">>, "crashed")
                 /\ UNCHANGED <<fsFiles, i, ops>>
            ELSE LET src == join(scandir, file_name)
                     dst == MovieDest(moviedir, file_name)
                     mv == shutil_move(src, dst, fsFiles, fsDirs, denied)
                 IN  /\ fsFiles' = mv.files
                     /\ ops' = Append(ops, Op("move", src, dst,
                                  IF mv.ok THEN <<"ok">> ELSE <<"error">>))
                     /\ IF mv.ok
                        THEN /\ i' = i + 1
                             /\ pc' = IF i = Len(movie_files) THEN "done"
                                      ELSE "move_movies"
                             /\ err' = err
                        ELSE /\ Raise(<<"OSError">>, "crashed")
                             /\ UNCHANGED i
    /\ UNCHANGED <<inputs, fsDirs, fields, files, matches, nonmatches,
                   movie_files, destinations>>

Next ==
    \/ Main
    \/ ProcessConfigs
    \/ ResolveFiles
    \/ MatchFiles
    \/ MoveSeries
    \/ Notify
    \/ Lookup
    \/ MoveMovies

Spec == Init /\ [][Next]_vars

\* ================================================================== claims

\* match_files has returned: execute has its matches and nonmatches.
Classified == i >= 1

Shows == IF series = <<>> THEN <<>> ELSE series[1]

OpsOf(name) == {k \in DOMAIN ops : ops[k].op = name}

\* The moves of the batch that failed.
FailedMoves == {k \in OpsOf("move") : ops[k].res = <<"error">>}

\* The run is over: it returned from execute or an exception ended it.
Ended == pc \in {"done", "crashed", "failed"}

\* ---------------------------------------------------------------------- C1
\* C1: match_files pairs a filename with at most one rule, and the rule it
\* is paired with is the first one, in configured order, whose pattern
\* matches the filename: no earlier rule matches it.
C1_FirstMatchWins ==
    Classified =>
        /\ \A f \in FileNames :
              Cardinality({k \in DOMAIN matches : matches[k][1] = f}) <= 1
        /\ \A k \in DOMAIN matches :
              \E j \in DOMAIN Shows :
                 /\ matches[k][2] = Shows[j]
                 /\ re_match(Shows[j].regex, matches[k][1])
                 /\ \A h \in 1..(j - 1) : ~re_match(Shows[h].regex, matches[k][1])

\* Three rules of which the first does not match a file and the second and
\* the third, a different rule, both do: the file is paired with the second.
C1_Witness ==
    /\ Classified
    /\ \E k \in DOMAIN matches :
          /\ Len(Shows) = 3
          /\ Shows[2] # Shows[3]
          /\ ~re_match(Shows[1].regex, matches[k][1])
          /\ re_match(Shows[2].regex, matches[k][1])
          /\ re_match(Shows[3].regex, matches[k][1])
          /\ matches[k][2] = Shows[2]

\* ---------------------------------------------------------------------- C2
\* The files of the batch being relocated: the matched ones, else the movies.
Batch ==
    IF matches # <<>> THEN [k \in DOMAIN matches |-> matches[k][1]]
    ELSE movie_files

\* C2: in a batch relocation a failure while moving one file does not abort
\* the batch: when the run is over every file of the batch has been
\* attempted, and the file whose move failed is where it was.
C2_FailureDoesNotAbortBatch ==
    (Ended /\ FailedMoves # {}) =>
        /\ \A n \in DOMAIN Batch :
              \E k \in OpsOf("move") : ops[k].a = join(scandir, Batch[n])
        /\ \A k \in FailedMoves : ~Truthy(file) => ops[k].a \in fsFiles

\* ---------------------------------------------------------------------- C3
\* What the command line and the configuration file leave unresolved.
GivenFile ==
    \/ Truthy(args.file)
    \/ Len(args.delugeArgs) >= 3
NoScanSource ==
    ~GivenFile /\ ~Truthy(args.scan) /\ "scanDir" \notin DOMAIN config
NoSeriesRoot == ~Truthy(args.dest) /\ "seriesDir" \notin DOMAIN config
NoMovieRoot == ~Truthy(args.moviedest) /\ "movieDir" \notin DOMAIN config
RuleLacksKey ==
    /\ "series" \in DOMAIN config
    /\ \E k \in DOMAIN config.series :
          {"name", "regex"} \ DOMAIN config.series[k] # {}

\* C3: a run whose setup fails (nothing to scan, a destination root that
\* cannot be resolved, a rule lacking a key) touches no file: it lists no
\* directory, creates none, moves nothing, looks no movie up and sends no
\* notification, and it never enters execute.
C3_SetupFailureTouchesNothing ==
    /\ pc = "failed" => ops = <<>>
    /\ (NoScanSource \/ NoSeriesRoot \/ NoMovieRoot \/ RuleLacksKey) =>
          /\ ops = <<>>
          /\ pc \in {"main", "process_configs", "failed"}

\* Setup has failed for want of a scan source, with files in the directory
\* a run would have scanned.
C3_Witness ==
    /\ pc = "failed"
    /\ NoScanSource
    /\ ~NoSeriesRoot /\ ~NoMovieRoot
    /\ fsFiles # {}

\* ---------------------------------------------------------------------- C4
\* A series entry of the configuration without a name or a regex, or with
\* an empty one.
RuleIncomplete ==
    /\ "series" \in DOMAIN config
    /\ \E k \in DOMAIN config.series :
          \/ {"name", "regex"} \ DOMAIN config.series[k] # {}
          \/ config.series[k].name = <<>>
          \/ config.series[k].regex = <<>>

\* C4: loading a configuration with an incomplete series entry fails at load
\* time with a ConfigurationError, so the entry never reaches match_files.
C4_IncompleteRuleIsConfigurationError ==
    RuleIncomplete =>
        \/ pc \in {"main", "process_configs"}
        \/ pc = "failed" /\ err = <<"ConfigurationError">>

\* ---------------------------------------------------------------------- C5
LookupRaised == \E k \in OpsOf("is_movie") : ops[k].res = <<"raise">>

\* C5: when the movie lookup raises for a filename the run does not crash:
\* the filename counts as no movie and is not moved, and the run ends with
\* every filename looked up.
C5_LookupFailureIsNotAMovie ==
    LookupRaised =>
        /\ pc # "crashed"
        /\ \A k \in OpsOf("is_movie") :
              ops[k].res = <<"raise">> =>
                 \A m \in OpsOf("move") : split(ops[m].a)[2] # ops[k].a
        /\ pc = "done" =>
              \A n \in DOMAIN files :
                 \E k \in OpsOf("is_movie") : ops[k].a = files[n]

\* ---------------------------------------------------------------------- C6
\* The filenames submitted to the movie lookup, in the order of the calls.
RECURSIVE LookedUpFrom(_)
LookedUpFrom(k) ==
    IF k > Len(ops) THEN <<>>
    ELSE IF ops[k].op = "is_movie" THEN <<ops[k].a>> \o LookedUpFrom(k + 1)
    ELSE LookedUpFrom(k + 1)

LookedUp == LookedUpFrom(1)

Accepted == {ops[k].a : k \in {n \in OpsOf("is_movie") : ops[n].res = <<"true">>}}
Rejected == {ops[k].a : k \in {n \in OpsOf("is_movie") : ops[n].res = <<"false">>}}

\* The names of the files a move of the run was asked to take.
MovedNames == {split(ops[k].a)[2] : k \in OpsOf("move")}

RECURSIVE NamesJoined(_)
NamesJoined(k) ==
    IF k = 0 THEN <<>>
    ELSE IF k = 1 THEN matches[1][2].name
    ELSE NamesJoined(k - 1) \o <<" ", "a", "n", "d", " ">> \o matches[k][2].name

\* C7: the notifier is called at most once in a run and only with a match;
\* what it sends is the name of the rule of every match, in match order,
\* joined with " and ", a series matched by k files being named k times.
C7_NotificationString ==
    /\ Cardinality(OpsOf("notify")) <= 1
    /\ \A k \in OpsOf("notify") :
          /\ matches # <<>>
          /\ ops[k].b = NamesJoined(Len(matches))

\* Two files of one series have been announced: its name is sent twice.
C7_Witness ==
    \E k \in OpsOf("notify") :
       /\ Len(matches) = 2
       /\ ops[k].b = <<"A", " ", "a", "n", "d", " ", "A">>

\* ---------------------------------------------------------------------- C8
\* The run is on the movie path: classification found no series match.
OnMoviePath == Classified /\ matches = <<>>

\* root/name, written out.
Under(root, name) == Norm(root) \o <<"/">> \o name

\* C8: on the movie path every move takes a filename the lookup accepted
\* from the scan directory to movieDestinationRoot/<that filename>, flat and
\* under its own name, and creates no directory; a filename the lookup
\* rejected is not moved and stays in the scanned directory; and a run that
\* returns from execute has every accepted filename at that place.
C8_MoviesPlacedFlat ==
    OnMoviePath =>
        /\ OpsOf("makedirs") = {}
        /\ \A k \in OpsOf("move") :
              \E f \in Accepted :
                 /\ ops[k].a = Under(scandir, f)
                 /\ ops[k].b = Under(moviedir, f)
                 /\ split(ops[k].b) = <<Norm(moviedir), f>>
        /\ \A f \in Rejected :
              /\ f \notin MovedNames
              /\ Under(moviedir, f) \notin fsFiles
              /\ ~Truthy(file) => Under(scandir, f) \in fsFiles
        /\ pc = "done" =>
              \A f \in Accepted :
                 /\ Under(moviedir, f) \in fsFiles
                 /\ Under(scandir, f) \notin fsFiles

\* A run has returned with one file accepted by the lookup and placed in the
\* movie root, and one rejected and left where it was.
C8_Witness ==
    /\ OnMoviePath
    /\ pc = "done"
    /\ \E f \in Accepted : Under(moviedir, f) \in fsFiles
    /\ \E f \in Rejected : Under(scandir, f) \in fsFiles

\* ---------------------------------------------------------------------- C9
\* The moves that were asked to put a file under the given root.
MovesUnder(root) ==
    {k \in OpsOf("move") :
        SubSeq(ops[k].b, 1, Len(Norm(root)) + 1) = Norm(root) \o <<"/">>}

SeriesWork == OpsOf("makedirs") \cup OpsOf("notify") \cup MovesUnder(seriesdir)
MovieWork == OpsOf("is_movie") \cup MovesUnder(moviedir)

\* C9: the two relocation branches exclude each other. A run with a series
\* match does series relocation and then, last, the notification, with no
\* movie lookup and nothing moved into the movie root; movie lookups and
\* movie moves happen only in a run with no series match, an unmatched file
\* and a movie root, every lookup before the first move, and such a run
\* creates no directory, moves nothing into the series root and does not
\* notify.
C9_BranchesExclusive ==
    /\ SeriesWork = {} \/ MovieWork = {}
    /\ (Classified /\ matches # <<>>) => MovieWork = {}
    /\ SeriesWork # {} => Classified /\ matches # <<>>
    /\ MovieWork # {} =>
          Classified /\ matches = <<>> /\ nonmatches # <<>> /\ moviedir # None
    /\ \A k \in OpsOf("notify") : k = Len(ops)
    /\ \A k \in OpsOf("is_movie") : \A m \in OpsOf("move") : k < m

\* A run with a matched and an unmatched file has returned: the matched one
\* was moved and announced, the unmatched one never looked up.
C9_Witness ==
    /\ pc = "done"
    /\ matches # <<>> /\ nonmatches # <<>>
    /\ MovesUnder(seriesdir) # {}
    /\ OpsOf("notify") # {}
    /\ MovieWork = {}

\* --------------------------------------------------------------------- C10
MatchedNames == [k \in DOMAIN matches |-> matches[k][1]]

Occ(seq, x) == Cardinality({k \in DOMAIN seq : seq[k] = x})

\* seq lists its elements in the order files lists them.
InInputOrder(seq) ==
    \A a, b \in DOMAIN seq :
       a < b => \E m, n \in DOMAIN files :
                   m < n /\ files[m] = seq[a] /\ files[n] = seq[b]

\* C10: match_files partitions its input: every filename of files is once in
\* matches or once in nonmatches and not in both, the outputs hold nothing
\* else, and each lists its filenames in the order of the input.
C10_Partition ==
    Classified =>
        /\ \A x \in FileNames :
              Occ(MatchedNames, x) + Occ(nonmatches, x) = Occ(files, x)
        /\ Len(MatchedNames) + Len(nonmatches) = Len(files)
        /\ InInputOrder(MatchedNames)
        /\ InInputOrder(nonmatches)

\* A listing of three files has been classified: the first and the third
\* were matched, the second was not.
C10_Witness ==
    /\ Classified
    /\ Len(files) = 3
    /\ MatchedNames = <<files[1], files[3]>>
    /\ nonmatches = <<files[2]>>

\* --------------------------------------------------------------------- C11
\* The run is on the series path: classification found a series match.
OnSeriesPath == Classified /\ matches # <<>>

\* seriesDestinationRoot/<destination, else name> of a rule, written out.
RuleDir(rule) ==
    seriesdir \o <<"/">> \o
        (IF "destination" \in DOMAIN rule THEN rule.destination ELSE rule.name)

\* The moves of the run that were made.
DoneMoves == {k \in OpsOf("move") : ops[k].res = <<"ok">>}

\* The n-th move the run asked for is the move of the n-th match.
NthMove(n) == CHOOSE k \in OpsOf("move") :
                 Cardinality({m \in OpsOf("move") : m <= k}) = n

\* C11: on the series path the n-th move puts the n-th matched file into
\* destDir = join(seriesDestinationRoot, rule.destination, else rule.name);
\* destDir is a directory when the file is moved, having been created by at
\* most one makedirs, placed right before a move, however many files share
\* it; and after every step of move_series the DestinationSet is exactly the
\* set of the destDirs of the files moved so far.
C11_SeriesDestDir ==
    OnSeriesPath =>
        /\ Cardinality(OpsOf("move")) <= Len(matches)
        /\ \A n \in 1..Cardinality(OpsOf("move")) :
              /\ split(ops[NthMove(n)].a)[2] = matches[n][1]
              /\ split(ops[NthMove(n)].b)[1] = Norm(RuleDir(matches[n][2]))
              /\ Norm(RuleDir(matches[n][2])) \in fsDirs
        /\ \A k, m \in OpsOf("makedirs") :
              Norm(ops[k].a) = Norm(ops[m].a) => k = m
        /\ \A k \in OpsOf("makedirs") :
              \/ k < Len(ops) /\ ops[k + 1].op = "move"
              \/ k = Len(ops) /\ pc = "crashed"
        /\ destinations =
              {RuleDir(matches[n][2]) : n \in 1..Cardinality(DoneMoves)}
        /\ pc = "move_series" => Cardinality(DoneMoves) = i - 1

\* Three files went to two directories, one under the rule's destination and
\* one under a rule's name: two of the files share a directory that a single
\* makedirs created, and the DestinationSet holds the two directories.
C11_Witness ==
    /\ OnSeriesPath
    /\ Cardinality(DoneMoves) = 3
    /\ Cardinality(destinations) = 2
    /\ \E n \in DOMAIN matches : "destination" \in DOMAIN matches[n][2]
    /\ \E n \in DOMAIN matches : "destination" \notin DOMAIN matches[n][2]
    /\ \E d \in destinations :
          /\ Cardinality({k \in OpsOf("makedirs") : ops[k].a = d}) = 1
          /\ Cardinality({k \in DoneMoves : split(ops[k].b)[1] = Norm(d)}) = 2

\* A file was moved into a directory that was there before the run: no
\* makedirs was called for it.
C11_WitnessPresent ==
    /\ OnSeriesPath
    /\ DoneMoves # {}
    /\ OpsOf("makedirs") = {}

\* --------------------------------------------------------------------- C12
\* The path that was supplied, as its directory joined with its bare name.
NamedSource == split(file)[1] \o <<"/">> \o split(file)[2]

\* C12: when a file path is supplied, the file that was classified is the
\* one that is relocated: once it is matched or found to be a movie its move
\* is asked for and not given up for want of a scan directory, and the
\* source of every move is the directory of the supplied path joined with
\* its bare filename, with or without a scan directory on the command line.
C12_NamedFileIsMoved ==
    (Truthy(file) /\ Classified) =>
        /\ \A k \in OpsOf("move") : ops[k].a = NamedSource
        /\ err # <<"TypeError">>

====
